---- MODULE Spec2Model ----
(***************************************************************************)
(* Model of yang_revision_tree.py: the Library registry (mods, namespaces, *)
(* prefixes, logs) and its merge engine Library.add_modules, together with *)
(* the Module record accessors, Module._scan and Library.scan_release.     *)
(* Python dicts are modelled as sequences of <<key, value>> pairs in       *)
(* insertion order; strings that the code inspects character by character  *)
(* (module names, file names) are sequences of characters.                 *)
(* `raised` is the exception that ended the process: "none", "KeyError"    *)
(* or "SystemExit".                                                        *)
(*                                                                         *)
(* Runs of main() are modelled over the library directory `snapshots`, a   *)
(* dict from release name to the rows of REVINFO-<release>.csv on disk:    *)
(* `pc` is the position of the running process in main, `release_name`    *)
(* and `files_to_scan` its command line, `csvfile` the rows written to the *)
(* open output file and not yet on disk, and `startup` the library         *)
(* directory as the process found it.                                      *)
(***************************************************************************)
EXTENDS Integers, Sequences, FiniteSets, TLC

VARIABLES mods, namespaces, prefixes, logs, new_results, raised,
          snapshots, startup, release_name, files_to_scan, pc, csvfile

runvars == <<snapshots, startup, release_name, files_to_scan, pc, csvfile>>

vars == <<mods, namespaces, prefixes, logs, new_results, raised, runvars>>

(***************************************************************************)
(* Bounds of the model.                                                    *)
(***************************************************************************)
MaxBatch == 2
MaxRevs == 3
MaxLogs == 3
MaxFiles == 2

(***************************************************************************)
(* Library constants (class attributes).                                   *)
(***************************************************************************)
NEW_MODULE == 0
NEW_REVISION == 1
KNOWN_REVISION == 2
ERROR_BASE == 3
COLL_PREFIX == 4
COLL_NAMESPACE == 5
DIFF_PREFIX == 6
DIFF_NAMESPACE == 7
DIFF_CHECKSUM == 8

ANY_REVISION == "None"

\* main: release_name = None (no --release option).
NoRelease == "None"

(***************************************************************************)
(* Strings as character sequences: str.endswith, str.startswith, s[n:].   *)
(***************************************************************************)
AnnSuffix == <<"-", "a", "n", "n">>

endswith(s, suffix) ==
  /\ Len(s) >= Len(suffix)
  /\ SubSeq(s, Len(s) - Len(suffix) + 1, Len(s)) = suffix

startswith(s, prefix) ==
  /\ Len(s) >= Len(prefix)
  /\ SubSeq(s, 1, Len(prefix)) = prefix

slice_from(s, n) == SubSeq(s, n + 1, Len(s))

(***************************************************************************)
(* Python dict as an insertion-ordered sequence of <<key, value>> pairs.   *)
(***************************************************************************)
DictHas(d, k) == \E i \in 1..Len(d) : d[i][1] = k

DictGet(d, k) == d[CHOOSE i \in 1..Len(d) : d[i][1] = k][2]

DictSet(d, k, v) ==
  IF DictHas(d, k)
  THEN [i \in 1..Len(d) |-> IF d[i][1] = k THEN <<k, v>> ELSE d[i]]
  ELSE Append(d, <<k, v>>)

DictKeys(d) == {d[i][1] : i \in 1..Len(d)}

(***************************************************************************)
(* Module: modinfo is a dict; a key may be absent (KeyError on access).    *)
(***************************************************************************)
Has(mod, field) == field \in DOMAIN mod

Foo == <<"f", "o", "o">>

modulename(mod) == IF Has(mod, "modulename") THEN mod.modulename ELSE Foo

\* True when evaluating mod.modulerevision raises KeyError.
modulerevision_raises(mod) ==
  \/ ~Has(mod, "modulerevision")
  \/ mod.modulerevision = "undefined" /\ ~Has(mod, "checksum")

modulerevision(mod) ==
  IF mod.modulerevision = "undefined" THEN mod.checksum ELSE mod.modulerevision

(***************************************************************************)
(* Library helpers.  L is the Library object: a record of its attributes   *)
(* plus `raised`, the exception propagating out of the running call.       *)
(***************************************************************************)
Library_init ==
  [mods |-> <<>>, namespaces |-> <<>>, prefixes |-> <<>>, logs |-> <<>>,
   raised |-> "none"]

get_module_names(L) == DictKeys(L.mods)

get_module_revisions(L, mod_name) == DictGet(L.mods, mod_name)

\* Mutant of get_module: ANY_REVISION picks the last inserted revision.
get_module_last(L, mod_name, mod_rev) ==
  IF mod_rev = ANY_REVISION
  THEN LET revs == DictGet(L.mods, mod_name) IN revs[Len(revs)][2]
  ELSE DictGet(DictGet(L.mods, mod_name), mod_rev)

get_module(L, mod_name, mod_rev) ==
  IF mod_rev = ANY_REVISION
  THEN DictGet(L.mods, mod_name)[1][2]
  ELSE DictGet(DictGet(L.mods, mod_name), mod_rev)

\* Mutant of log_error: the entry is put in front of the log.
log_error_prepend(L, issue_code, ms) ==
  [L EXCEPT !.logs = <<<<issue_code, ms>>>> \o @]

log_error(L, issue_code, ms) == [L EXCEPT !.logs = Append(@, <<issue_code, ms>>)]

log_added(L, success_code, ms) == [L EXCEPT !.logs = Append(@, <<success_code, ms>>)]

KeyError(L) == [L EXCEPT !.raised = "KeyError"]

(***************************************************************************)
(* add_modules, loop body, branch "New module" (lines 211-222).            *)
(***************************************************************************)
namespace_collides(L, mod) ==
  /\ DictHas(L.namespaces, mod.namespace)
  /\ mod.kind # "submodule"
  /\ ~endswith(modulename(mod), AnnSuffix)

prefix_collides(L, mod) ==
  /\ DictHas(L.prefixes, mod.prefix)
  /\ ~endswith(modulename(mod), AnnSuffix)

\* Mutant of register_prefix: no `continue` after COLL_PREFIX.
register_prefix_no_continue(L, mod) ==
  IF prefix_collides(L, mod)
  THEN log_added(log_error(L, COLL_PREFIX, <<DictGet(L.prefixes, mod.prefix), mod>>),
                 NEW_MODULE, <<mod>>)
  ELSE log_added([L EXCEPT !.prefixes = DictSet(@, mod.prefix, mod)],
                 NEW_MODULE, <<mod>>)

register_prefix(L, mod) ==
  IF ~Has(mod, "prefix") THEN KeyError(L)
  ELSE IF prefix_collides(L, mod)
  THEN log_error(L, COLL_PREFIX, <<DictGet(L.prefixes, mod.prefix), mod>>)
  ELSE log_added([L EXCEPT !.prefixes = DictSet(@, mod.prefix, mod)],
                 NEW_MODULE, <<mod>>)

\* Mutant of register_namespace: no `continue` after COLL_NAMESPACE.
register_namespace_no_continue(L, mod) ==
  IF namespace_collides(L, mod)
  THEN register_prefix(
         [log_error(L, COLL_NAMESPACE, <<DictGet(L.namespaces, mod.namespace), mod>>)
            EXCEPT !.namespaces = DictSet(@, mod.namespace, mod)], mod)
  ELSE register_prefix([L EXCEPT !.namespaces = DictSet(@, mod.namespace, mod)], mod)

register_namespace(L, mod) ==
  IF ~Has(mod, "namespace") THEN KeyError(L)
  ELSE IF DictHas(L.namespaces, mod.namespace) /\ ~Has(mod, "kind") THEN KeyError(L)
  ELSE IF namespace_collides(L, mod)
  THEN log_error(L, COLL_NAMESPACE, <<DictGet(L.namespaces, mod.namespace), mod>>)
  ELSE register_prefix([L EXCEPT !.namespaces = DictSet(@, mod.namespace, mod)], mod)

new_module(L, mod) ==
  IF modulerevision_raises(mod) THEN KeyError(L)
  ELSE register_namespace(
         [L EXCEPT !.mods = DictSet(@, modulename(mod),
                                    <<<<modulerevision(mod), mod>>>>)], mod)

(***************************************************************************)
(* Branch "Existing module, new revision" (lines 224-238).                 *)
(***************************************************************************)
check_prefix(L, lib_mod, mod) ==
  IF ~Has(lib_mod, "prefix") \/ ~Has(mod, "prefix") THEN KeyError(L)
  ELSE IF lib_mod.prefix # mod.prefix
  THEN log_error(L, DIFF_PREFIX, <<lib_mod, mod>>)
  ELSE L

check_namespace(L, lib_mod, mod) ==
  IF ~Has(lib_mod, "namespace") \/ ~Has(mod, "namespace") THEN KeyError(L)
  ELSE IF /\ lib_mod.namespace # mod.namespace
          /\ mod.namespace # "undefined"
          /\ lib_mod.namespace # "undefined"
  THEN log_error(L, DIFF_NAMESPACE, <<lib_mod, mod>>)
  ELSE check_prefix(L, lib_mod, mod)

\* Mutant of new_revision: the new revision is checked but not stored.
new_revision_not_stored(L, mod) ==
  check_namespace(L, get_module(L, modulename(mod), ANY_REVISION), mod)

\* Mutant of new_revision: the new revision becomes the namespace owner.
new_revision_indexed(L, mod) ==
  LET lib_mod == get_module(L, modulename(mod), ANY_REVISION)
      revs == get_module_revisions(L, modulename(mod))
  IN check_namespace(
       [L EXCEPT !.mods = DictSet(@, modulename(mod),
                                  DictSet(revs, modulerevision(mod), mod)),
                 !.namespaces = DictSet(@, mod.namespace, mod)],
       lib_mod, mod)

new_revision(L, mod) ==
  LET lib_mod == get_module(L, modulename(mod), ANY_REVISION)
      revs == get_module_revisions(L, modulename(mod))
  IN check_namespace(
       [L EXCEPT !.mods = DictSet(@, modulename(mod),
                                  DictSet(revs, modulerevision(mod), mod))],
       lib_mod, mod)

(***************************************************************************)
(* Branch "Existing module, existing revision" (lines 239-243).            *)
(***************************************************************************)
\* Mutants of known_revision: the re-scanned record replaces the stored one;
\* the whole records are compared instead of their checksums.
known_revision_overwrite(L, mod) ==
  LET stored == get_module(L, modulename(mod), modulerevision(mod))
      revs == get_module_revisions(L, modulename(mod))
      L1 == [L EXCEPT !.mods = DictSet(@, modulename(mod),
                                       DictSet(revs, modulerevision(mod), mod))]
  IN IF stored.checksum # mod.checksum
     THEN log_error(L1, DIFF_CHECKSUM, <<stored, mod>>)
     ELSE L1

known_revision_compare_record(L, mod) ==
  LET stored == get_module(L, modulename(mod), modulerevision(mod))
  IN IF stored # mod
     THEN log_error(L, DIFF_CHECKSUM, <<stored, mod>>)
     ELSE L

known_revision(L, mod) ==
  LET stored == get_module(L, modulename(mod), modulerevision(mod))
  IN IF ~Has(stored, "checksum") \/ ~Has(mod, "checksum") THEN KeyError(L)
     ELSE IF stored.checksum # mod.checksum
     THEN log_error(L, DIFF_CHECKSUM, <<stored, mod>>)
     ELSE L

(***************************************************************************)
(* One iteration of the for loop of add_modules (lines 210-243).           *)
(***************************************************************************)
\* Mutant of add_module: a record with a known module name is ignored.
add_module_known_name_ignored(L, mod) ==
  IF modulename(mod) \notin get_module_names(L) THEN new_module(L, mod) ELSE L

add_module(L, mod) ==
  IF modulename(mod) \notin get_module_names(L) THEN new_module(L, mod)
  ELSE IF modulerevision_raises(mod) THEN KeyError(L)
  ELSE IF ~DictHas(get_module_revisions(L, modulename(mod)), modulerevision(mod))
  THEN new_revision(L, mod)
  ELSE known_revision(L, mod)

(***************************************************************************)
(* Library.add_modules(mods): the for loop; an exception ends it.          *)
(***************************************************************************)
RECURSIVE add_modules(_, _)
add_modules(L, batch) ==
  IF batch = <<>> \/ L.raised # "none" THEN L
  ELSE add_modules(add_module(L, Head(batch)), Tail(batch))

(***************************************************************************)
(* Input universes: well-formed records (all eight fields present).        *)
(*                                                                         *)
(* Records: distinct module names ("a", "b", and the annotation module     *)
(* "c-ann") of one revision, sharing or not a namespace and a prefix, as   *)
(* found when a release directory is scanned.                              *)
(*                                                                         *)
(* RevRecords: revisions of one module "a", as <<declared revision,        *)
(* checksum, namespace, prefix>>: declared revision "r1" with two file     *)
(* contents, and undeclared revisions (keyed by checksum) whose namespace  *)
(* and prefix agree with, differ from, or are undefined next to the rest.  *)
(***************************************************************************)
Rec(name, rev, sum, ns, pfx, knd) ==
  [modulename |-> name, modulerevision |-> rev, release |-> "R1",
   checksum |-> sum, namespace |-> ns, prefix |-> pfx, kind |-> knd,
   filename |-> "f.yang"]

NameKinds ==
  { <<<<"a">>, "module">>, <<<<"b">>, "module">>, <<<<"b">>, "submodule">>,
    <<<<"c", "-", "a", "n", "n">>, "module">> }

NsPrefixes == { <<"n1", "p1">>, <<"n1", "p2">>, <<"n2", "p1">> }

Records ==
  { Rec(nk[1], "r1", "c1", np[1], np[2], nk[2]) : nk \in NameKinds, np \in NsPrefixes }

RevCases ==
  { <<"r1", "c1", "n1", "p1">>,
    <<"r1", "c2", "n1", "p1">>,
    <<"r1", "c2", "n2", "p1">>,
    <<"undefined", "c1", "n2", "p2">>,
    <<"undefined", "c1", "n1", "p1">>,
    <<"undefined", "c1", "undefined", "p1">>,
    <<"undefined", "c2", "undefined", "p2">>,
    <<"undefined", "c2", "n1", "p2">> }

RevRecords == { Rec(<<"a">>, c[1], c[2], c[3], c[4], "module") : c \in RevCases }

BatchesOf(S) == UNION {[1..n -> S] : n \in 1..MaxBatch}

Batches == BatchesOf(Records)

RevBatches == BatchesOf(RevRecords)

\* MixRecords: two module names "a" and "b" with several revisions each, as
\* <<name, declared revision, checksum, namespace, prefix, kind>>: the
\* revisions of one name use namespaces and prefixes of the other name.
MixCases ==
  { <<<<"a">>, "r1", "c1", "n1", "p1", "module">>,
    <<<<"a">>, "r1", "c2", "n1", "p1", "module">>,
    <<<<"a">>, "r2", "c3", "n2", "p2", "module">>,
    <<<<"a">>, "undefined", "c3", "n1", "p2", "module">>,
    <<<<"b">>, "r1", "c1", "n2", "p2", "module">>,
    <<<<"b">>, "r1", "c1", "n1", "p2", "module">>,
    <<<<"b">>, "r2", "c2", "n2", "p1", "module">>,
    <<<<"b">>, "r1", "c1", "n1", "p1", "submodule">> }

MixRecords == { Rec(c[1], c[2], c[3], c[4], c[5], c[6]) : c \in MixCases }

MixBatches == BatchesOf(MixRecords)

(***************************************************************************)
(* Module._scan (lines 42-101).  The extractor's stdout is a sequence of   *)
(* lines, each given by its pieces line.split(" = "); the second piece of  *)
(* a "kw = value" line is <<decoration, text>>, the decoration being the   *)
(* quote characters around the text ("'", "\"", "<<\"") or "".             *)
(***************************************************************************)
DotYang == <<".", "y", "a", "n", "g">>
DotYin == <<".", "y", "i", "n">>

_strip_version(filename) ==
  IF \A i \in 1..Len(filename) : filename[i] # "@" THEN filename
  ELSE SubSeq(filename, 1,
              (CHOOSE i \in 1..Len(filename) :
                 filename[i] = "@" /\ \A j \in 1..(i - 1) : filename[j] # "@") - 1)

\* Lines 75-80: the value without its quotes or binary decoration.
unquote(piece) == piece[2]

\* Line 84: the declared module name fails the file name check.
modulename_mismatch(filepath_name, val) ==
  LET expected_modname == _strip_version(filepath_name)
  IN /\ ~startswith(expected_modname, val)
     /\ slice_from(val, Len(expected_modname)) \in {DotYang, DotYin}

StoredKeywords ==
  {"modulename", "yang_version", "filename", "namespace", "prefix",
   "modulerevision", "kind"}

\* The for loop of lines 55-99: the result is <<status, modinfo>>, where
\* modinfo is a sequence-dict and status "ok" or "SystemExit" (error()).
RECURSIVE scan_lines(_, _, _)
scan_lines(filepath_name, lines, modinfo) ==
  IF lines = <<>> THEN <<"ok", modinfo>>
  ELSE
    LET line == Head(lines)
    IN IF Len(line) = 1 /\ line[1] = "}" THEN <<"ok", modinfo>>
       ELSE IF Len(line) # 2 THEN scan_lines(filepath_name, Tail(lines), modinfo)
       ELSE
         LET kw == line[1]
             val == unquote(line[2])
         IN IF kw = "modulename" /\ modulename_mismatch(filepath_name, val)
            THEN <<"SystemExit", modinfo>>
            ELSE IF kw = "yang_version" /\ val \notin {"1", "1.1"}
            THEN <<"SystemExit", modinfo>>
            ELSE IF kw \notin StoredKeywords
            THEN scan_lines(filepath_name, Tail(lines), modinfo)
            ELSE scan_lines(filepath_name, Tail(lines), DictSet(modinfo, kw, val))

\* A dict as a function on its keys (a Module's modinfo).
AsRecord(d) == [k \in DictKeys(d) |-> DictGet(d, k)]

\* Module(filepath, ..., release): <<"ok", Module>>, <<"ParseError">> or
\* <<"SystemExit">>.  file is [name, checksum, stdout].
Module_scan(file, release) ==
  LET r == scan_lines(file.name, file.stdout,
                      << <<"checksum", file.checksum>>, <<"release", release>> >>)
  IN IF r[1] = "SystemExit" THEN <<"SystemExit">>
     ELSE IF Len(r[2]) < 5 THEN <<"ParseError">>
     ELSE <<"ok", AsRecord(r[2])>>

(***************************************************************************)
(* Library.scan_release (lines 323-340): files is the sequence of the      *)
(* discovered file paths.  The result is <<status, module_info_dict>>.     *)
(***************************************************************************)
RECURSIVE scan_files(_, _, _)
scan_files(files, release, module_info_dict) ==
  IF files = <<>> THEN <<"ok", module_info_dict>>
  ELSE
    LET m == Module_scan(Head(files), release)
    IN IF m[1] = "SystemExit" THEN <<"SystemExit", module_info_dict>>
       ELSE IF m[1] = "ParseError"
       THEN scan_files(Tail(files), release, module_info_dict)
       ELSE scan_files(Tail(files), release,
                       DictSet(module_info_dict, Head(files).name, m[2]))

DictValues(d) == [i \in 1..Len(d) |-> d[i][2]]

\* {**a, **b}
DictMerge(a, b) ==
  LET RECURSIVE Put(_, _)
      Put(d, rest) ==
        IF rest = <<>> THEN d ELSE Put(DictSet(d, Head(rest)[1], Head(rest)[2]), Tail(rest))
  IN Put(a, b)

(***************************************************************************)
(* Extractor outputs of the scanned files.                                 *)
(***************************************************************************)
NameA == <<"a">>
NameB == <<"b">>
FileA == <<"a", ".", "y", "a", "n", "g">>
FileB == <<"b", ".", "y", "a", "n", "g">>

\* The module section printed by the extractor for the given keywords,
\* followed by a line of a later section.
Stdout(kws, name, version, ns, pfx) ==
  LET all == << <<"name", <<"'", name>>>>,
                <<"yang_version", <<"'", version>>>>,
                <<"modulename", <<"'", name>>>>,
                <<"namespace", <<"'", ns>>>>,
                <<"prefix", <<"", pfx>>>>,
                <<"modulerevision", <<"<<\"", "r1">>>>,
                <<"filename", <<"\"", "x.yang">>>>,
                <<"kind", <<"", "module">>>> >>
      Shown(line) == line[1] \in kws
  IN << <<"#module{">> >> \o SelectSeq(all, Shown)
       \o << <<"}">>, <<"prefix", <<"", "zz">>>> >>

AllKeywords == StoredKeywords \cup {"name"}

ScanFile(name, sum, kws, modname, version, ns, pfx) ==
  [name |-> name, checksum |-> sum, stdout |-> Stdout(kws, modname, version, ns, pfx)]

ScanFiles ==
  { ScanFile(FileA, "c1", AllKeywords, NameA, "1.1", "n1", "p1"),
    ScanFile(FileB, "c2", AllKeywords, NameB, "1", "n1", "p2"),
    ScanFile(FileB, "c2", AllKeywords, NameB, "1", "n2", "p1"),
    ScanFile(FileB, "c2", {"modulename", "yang_version", "filename"}, NameB, "1", "n2", "p2"),
    ScanFile(FileA, "c1", {"modulename", "namespace"}, NameA, "1.1", "n1", "p1"),
    ScanFile(FileB, "c1", AllKeywords \ {"kind"}, NameB, "1.1", "n1", "p2"),
    ScanFile(FileB, "c1", AllKeywords \ {"prefix"}, NameB, "1.1", "n2", "p2"),
    ScanFile(FileB, "c1", AllKeywords \ {"modulename"}, NameB, "1.1", "n2", "p2"),
    ScanFile(FileA, "c2", AllKeywords, NameA, "2", "n1", "p1") }

FileLists == UNION {[1..n -> ScanFiles] : n \in 1..MaxFiles}

(***************************************************************************)
(* State machine.                                                          *)
(***************************************************************************)
Lib ==
  [mods |-> mods, namespaces |-> namespaces, prefixes |-> prefixes,
   logs |-> logs, raised |-> raised]

NumRevs(L) ==
  LET RECURSIVE Sum(_)
      Sum(d) == IF d = <<>> THEN 0 ELSE Len(Head(d)[2]) + Sum(Tail(d))
  IN Sum(L.mods)

Init ==
  /\ mods = Library_init.mods
  /\ namespaces = Library_init.namespaces
  /\ prefixes = Library_init.prefixes
  /\ logs = Library_init.logs
  /\ new_results = <<>>
  /\ raised = Library_init.raised
  /\ snapshots = <<>>
  /\ startup = <<>>
  /\ release_name = NoRelease
  /\ files_to_scan = <<>>
  /\ pc = "start"
  /\ csvfile = <<>>

Become(L) ==
  /\ mods' = L.mods
  /\ namespaces' = L.namespaces
  /\ prefixes' = L.prefixes
  /\ logs' = L.logs
  /\ raised' = L.raised

AddModules(batch) ==
  /\ raised = "none"
  /\ LET L == add_modules(Lib, batch)
     IN /\ NumRevs(L) <= MaxRevs
        /\ Len(L.logs) <= MaxLogs
        /\ Become(L)
        /\ UNCHANGED new_results
  /\ UNCHANGED runvars

Next == \E batch \in Batches : AddModules(batch)

Spec == Init /\ [][Next]_vars

\* scan_release(release_name, files_to_scan) as called by main (line 413).
ScanRelease(release, files) ==
  /\ raised = "none"
  /\ LET r == scan_files(files, release, <<>>)
     IN IF r[1] = "SystemExit"
        THEN /\ raised' = "SystemExit"
             /\ UNCHANGED <<mods, namespaces, prefixes, logs, new_results>>
        ELSE LET L == add_modules(Lib, DictValues(r[2]))
             IN /\ NumRevs(L) <= MaxRevs
                /\ Len(L.logs) <= MaxLogs
                /\ new_results' = DictMerge(new_results, r[2])
                /\ Become(L)
  /\ UNCHANGED runvars

NextScan == \E files \in FileLists : ScanRelease("R1", files)

SpecScan == Init /\ [][NextScan]_vars

NextRevisions == \E batch \in RevBatches : AddModules(batch)

SpecRevisions == Init /\ [][NextRevisions]_vars

NextMixed == \E batch \in MixBatches : AddModules(batch)

SpecMixed == Init /\ [][NextMixed]_vars

(***************************************************************************)
(* Snapshot files.  A file is the sequence of its rows, the header first;  *)
(* a row is the sequence of its values.  The library directory is a dict   *)
(* from release name to file (REVINFO-<release>.csv).                      *)
(***************************************************************************)
csv_fieldnames ==
  <<"modulename", "modulerevision", "release", "checksum", "namespace",
    "prefix", "kind", "filename">>

\* The empty string '' as a value of the given column.
EmptyString(fieldname) == IF fieldname = "modulename" THEN <<>> ELSE ""

\* Module.get_row: modinfo.get(fieldname, '') for each csv field.
get_row(mod) ==
  [i \in 1..Len(csv_fieldnames) |->
     IF Has(mod, csv_fieldnames[i]) THEN mod[csv_fieldnames[i]]
     ELSE EmptyString(csv_fieldnames[i])]

\* csv.DictReader: the first row gives the field names, every later row a
\* dict from field name to value (an OrderedDict under python3.6).
DictReader(csvfile_rows) ==
  IF csvfile_rows = <<>> THEN <<>>
  ELSE LET fieldnames == csvfile_rows[1]
       IN [i \in 1..(Len(csvfile_rows) - 1) |->
             [f \in {fieldnames[j] : j \in 1..Len(fieldnames)} |->
                csvfile_rows[i + 1][CHOOSE j \in 1..Len(fieldnames) : fieldnames[j] = f]]]

\* Module(csvrow): _populate keeps the row as modinfo.
Module_populate(csvrow) == csvrow

\* Line 206: [Module(row) for row in revinfo_reader].
revinfo_modules(dbfile) ==
  LET revinfo_reader == DictReader(dbfile)
  IN [i \in 1..Len(revinfo_reader) |-> Module_populate(revinfo_reader[i])]

load_release(L, dbfile) == add_modules(L, revinfo_modules(dbfile))

\* Library.load: dbfiles is the sequence of release names in glob order.
RECURSIVE load(_, _, _)
load(L, fs, dbfiles) ==
  IF dbfiles = <<>> THEN L
  ELSE load(load_release(L, DictGet(fs, Head(dbfiles))), fs, Tail(dbfiles))

\* The orders in which glob may list the files of the library directory.
GlobOrders(fs) ==
  { order \in [1..Len(fs) -> DictKeys(fs)] :
      \A i, j \in 1..Len(fs) : order[i] = order[j] => i = j }

\* Mutant of is_release_scanned: no release counts as scanned.
is_release_scanned_never(fs, release) == FALSE

is_release_scanned(fs, release) == DictHas(fs, release)

\* open(outfile, 'w'): the file exists and is empty.
open_w(fs, outfile) == DictSet(fs, outfile, <<>>)

\* The written rows reach the file.
flush(fs, outfile, buffer) == DictSet(fs, outfile, DictGet(fs, outfile) \o buffer)

unlink(fs, outfile) == SelectSeq(fs, LAMBDA entry : entry[1] # outfile)

\* Mutant of close_outfile: an output without rows is kept.
close_outfile_keep(fs, outfile, buffer, rows) == flush(fs, outfile, buffer)

\* Lines 312-321: leaving the with block closes the file, and an output
\* without rows is removed.
close_outfile(fs, outfile, buffer, rows) ==
  LET closed == flush(fs, outfile, buffer)
  IN IF rows = 0 THEN unlink(closed, outfile) ELSE closed

\* Library.write_out_new_results, from call to return.
write_out_new_results(fs, results, release) ==
  IF DictHas(fs, release) THEN fs
  ELSE close_outfile(open_w(fs, release), release,
                     <<csv_fieldnames>> \o [i \in 1..Len(results) |-> get_row(results[i][2])],
                     Len(results))

\* Mutant of print_log: the release filter is not applied.
print_log_unfiltered(L, release) == L.logs

\* Library.print_log: the entries of the loop that are not skipped by
\* `continue`, in the order of the loop.
print_log(L, release) ==
  LET RECURSIVE loop(_)
      loop(entries) ==
        IF entries = <<>> THEN <<>>
        ELSE LET ms == Head(entries)[2]
             IN IF /\ release # NoRelease
                   /\ release \notin {ms[i].release : i \in 1..Len(ms)}
                THEN loop(Tail(entries))
                ELSE <<Head(entries)>> \o loop(Tail(entries))
  IN loop(L.logs)

(***************************************************************************)
(* Runs of main (lines 368-423) on a library directory.  The steps are the *)
(* points at which the library directory changes or the process may be     *)
(* found terminated: load, scan and merge, open of the output file, each   *)
(* written row, a flush of the written rows to the file, close, print_log. *)
(***************************************************************************)
Releases == {"R1", "R2"}

RunFiles ==
  { ScanFile(FileA, "c1", AllKeywords, NameA, "1.1", "n1", "p1"),
    ScanFile(FileB, "c2", AllKeywords, NameB, "1", "n1", "p2"),
    ScanFile(FileB, "c1", AllKeywords \ {"modulename"}, NameB, "1.1", "n2", "p2"),
    ScanFile(FileA, "c1", {"modulename", "namespace"}, NameA, "1.1", "n1", "p1"),
    ScanFile(FileA, "c2", AllKeywords, NameA, "2", "n1", "p1") }

RunFileLists == UNION {[1..n -> RunFiles] : n \in 0..MaxFiles}

\* Lines 404-406: a new Library loads every snapshot of the directory.
MainLoad(release, dbfiles) ==
  /\ pc = "start"
  /\ raised = "none"
  /\ release_name' = release
  /\ startup' = snapshots
  /\ Become(load(Library_init, snapshots, dbfiles))
  /\ pc' = "loaded"
  /\ UNCHANGED <<new_results, snapshots, files_to_scan, csvfile>>

\* Lines 409-413: the release is scanned and merged.
MainScan(files) ==
  /\ pc = "loaded"
  /\ raised = "none"
  /\ release_name # NoRelease
  /\ ~is_release_scanned(snapshots, release_name)
  /\ files_to_scan' = files
  /\ LET r == scan_files(files, release_name, <<>>)
     IN IF r[1] = "SystemExit"
        THEN /\ raised' = "SystemExit"
             /\ UNCHANGED <<mods, namespaces, prefixes, logs, new_results>>
        ELSE /\ new_results' = DictMerge(new_results, r[2])
             /\ Become(add_modules(Lib, DictValues(r[2])))
  /\ pc' = "scanned"
  /\ UNCHANGED <<snapshots, startup, release_name, csvfile>>

\* Lines 409, 419-420: no release name, or the release is already scanned.
MainSkip ==
  /\ pc = "loaded"
  /\ raised = "none"
  /\ release_name = NoRelease \/ is_release_scanned(snapshots, release_name)
  /\ pc' = "print"
  /\ UNCHANGED <<mods, namespaces, prefixes, logs, new_results, raised,
                 snapshots, startup, release_name, files_to_scan, csvfile>>

\* The data rows written so far by write_out_new_results.
rows == Len(DictGet(snapshots, release_name)) + Len(csvfile) - 1

\* Lines 303-314: the output file is created and the header written.
WriteOpen ==
  /\ pc = "scanned"
  /\ raised = "none"
  /\ IF DictHas(snapshots, release_name)
     THEN /\ pc' = "print"
          /\ UNCHANGED <<snapshots, csvfile>>
     ELSE /\ snapshots' = open_w(snapshots, release_name)
          /\ csvfile' = <<csv_fieldnames>>
          /\ pc' = "writing"
  /\ UNCHANGED <<mods, namespaces, prefixes, logs, new_results, raised,
                 startup, release_name, files_to_scan>>

\* Lines 315-317: one row of new_results.values() is written.
WriteRow ==
  /\ pc = "writing"
  /\ rows < Len(new_results)
  /\ csvfile' = Append(csvfile, get_row(DictValues(new_results)[rows + 1]))
  /\ UNCHANGED <<mods, namespaces, prefixes, logs, new_results, raised,
                 snapshots, startup, release_name, files_to_scan, pc>>

\* The rows written so far reach the file (at a time the code does not choose).
Flush ==
  /\ pc = "writing"
  /\ csvfile # <<>>
  /\ snapshots' = flush(snapshots, release_name, csvfile)
  /\ csvfile' = <<>>
  /\ UNCHANGED <<mods, namespaces, prefixes, logs, new_results, raised,
                 startup, release_name, files_to_scan, pc>>

\* Lines 318-321: the file is closed, and removed when it has no rows.
WriteClose ==
  /\ pc = "writing"
  /\ rows = Len(new_results)
  /\ snapshots' = close_outfile(snapshots, release_name, csvfile, rows)
  /\ csvfile' = <<>>
  /\ pc' = "print"
  /\ UNCHANGED <<mods, namespaces, prefixes, logs, new_results, raised,
                 startup, release_name, files_to_scan>>

\* Lines 421-423: the log is printed.
PrintLog ==
  /\ pc = "print"
  /\ pc' = "done"
  /\ UNCHANGED <<mods, namespaces, prefixes, logs, new_results, raised,
                 snapshots, startup, release_name, files_to_scan, csvfile>>

\* The process ends: by returning from main, by an exception, or by being
\* terminated at any point.  Its memory is lost, the files stay.
Terminate ==
  /\ pc # "start"
  /\ Become(Library_init)
  /\ new_results' = <<>>
  /\ startup' = snapshots
  /\ release_name' = NoRelease
  /\ files_to_scan' = <<>>
  /\ csvfile' = <<>>
  /\ pc' = "start"
  /\ UNCHANGED snapshots

NextRun ==
  \/ \E release \in Releases \cup {NoRelease}, dbfiles \in GlobOrders(snapshots) :
       MainLoad(release, dbfiles)
  \/ \E files \in RunFileLists : MainScan(files)
  \/ MainSkip
  \/ WriteOpen
  \/ WriteRow
  \/ Flush
  \/ WriteClose
  \/ PrintLog
  \/ Terminate

SpecRun == Init /\ [][NextRun]_vars

(***************************************************************************)
(* Vocabulary of the properties.                                           *)
(***************************************************************************)
\* The effective revision: the checksum stands in for an undeclared revision.
EffectiveRevision(m) ==
  IF m.modulerevision = "undefined" THEN m.checksum ELSE m.modulerevision

KeyOf(m) == <<m.modulename, EffectiveRevision(m)>>

Keys(L) ==
  UNION { { <<L.mods[i][1], L.mods[i][2][j][1]>> : j \in 1..Len(L.mods[i][2]) }
          : i \in 1..Len(L.mods) }

Stored(L, key) == DictGet(DictGet(L.mods, key[1]), key[2])

NoDuplicateKeys(d) == \A i, j \in 1..Len(d) : d[i][1] = d[j][1] => i = j

\* The log entries that library L2 has beyond the current log.
NewEntries(L2) == SubSeq(L2.logs, Len(logs) + 1, Len(L2.logs))

IsAnn(m) == endswith(m.modulename, AnnSuffix)

\* The step is a call add_modules(batch).
IsCall(batch) == Lib' = add_modules(Lib, batch)

(***************************************************************************)
(* C1: every (module name, effective revision) key of the registry holds   *)
(* the record first merged under it: an add_modules call on any batch      *)
(* keeps every stored record under its key, stores under each new key the  *)
(* first record of the batch with that key, and no key occurs twice.       *)
(***************************************************************************)
C1_FirstMergedRecordKept ==
  /\ NoDuplicateKeys(mods)
  /\ \A i \in 1..Len(mods) : NoDuplicateKeys(mods[i][2])
  /\ \A key \in Keys(Lib) : KeyOf(Stored(Lib, key)) = key
  /\ \A batch \in RevBatches :
       LET L2 == add_modules(Lib, batch)
       IN /\ \A key \in Keys(Lib) :
               key \in Keys(L2) /\ Stored(L2, key) = Stored(Lib, key)
          /\ \A i \in 1..Len(batch) : KeyOf(batch[i]) \in Keys(L2)
          /\ \A key \in Keys(L2) \ Keys(Lib) :
               \E i \in 1..Len(batch) :
                 /\ KeyOf(batch[i]) = key
                 /\ \A j \in 1..(i - 1) : KeyOf(batch[j]) # key
                 /\ Stored(L2, key) = batch[i]

\* A record was merged under an occupied key, and the first record is still there.
C1_Witness ==
  \E i \in 1..Len(logs) :
    /\ logs[i][1] = DIFF_CHECKSUM
    /\ logs[i][2][1] # logs[i][2][2]
    /\ KeyOf(logs[i][2][2]) \in Keys(Lib)
    /\ Stored(Lib, KeyOf(logs[i][2][2])) = logs[i][2][1]
    /\ NumRevs(Lib) >= 2

(***************************************************************************)
(* C2: the namespace and prefix owner indices are monotonic: no step       *)
(* changes the owner stored for a namespace or for a prefix.               *)
(***************************************************************************)
C2_OwnersNeverChange ==
  [][ /\ \A i \in 1..Len(namespaces) :
           /\ DictHas(namespaces', namespaces[i][1])
           /\ DictGet(namespaces', namespaces[i][1]) = namespaces[i][2]
      /\ \A i \in 1..Len(prefixes) :
           /\ DictHas(prefixes', prefixes[i][1])
           /\ DictGet(prefixes', prefixes[i][1]) = prefixes[i][2] ]_vars

(***************************************************************************)
(* C3: merging a record whose key is already in the registry appends       *)
(* exactly one entry, DIFF_CHECKSUM [stored, merged], when the checksums   *)
(* differ, and nothing when they are equal; the registry is unchanged.     *)
(***************************************************************************)
C3_ChecksumConflictLogged ==
  \A m \in RevRecords :
    KeyOf(m) \in Keys(Lib) =>
      LET stored == Stored(Lib, KeyOf(m))
          L2 == add_module(Lib, m)
      IN IF stored.checksum # m.checksum
         THEN L2 = [Lib EXCEPT !.logs = Append(logs, <<DIFF_CHECKSUM, <<stored, m>>>>)]
         ELSE L2 = Lib

\* The last merge hit a stored key with another checksum.
C3_Witness ==
  /\ logs # <<>>
  /\ LET e == logs[Len(logs)]
     IN /\ e[1] = DIFF_CHECKSUM
        /\ e[2][1].checksum # e[2][2].checksum
        /\ KeyOf(e[2][1]) = KeyOf(e[2][2])
        /\ Stored(Lib, KeyOf(e[2][2])) = e[2][1]

(***************************************************************************)
(* C4: idempotent re-merge.  As claimed: a second add_modules call with    *)
(* the same batch appends no log entry.                                    *)
(***************************************************************************)
C4_RemergeAppendsNothing ==
  [][ \A batch \in RevBatches :
        IsCall(batch) => add_modules(Lib', batch).logs = logs' ]_vars

\* One DIFF_CHECKSUM entry for each record of the batch, in order, whose
\* checksum differs from that of the record stored in L under its key.
RECURSIVE ChecksumConflicts(_, _)
ChecksumConflicts(L, batch) ==
  IF batch = <<>> THEN <<>>
  ELSE LET m == Head(batch)
       IN (IF KeyOf(m) \in Keys(L) /\ Stored(L, KeyOf(m)).checksum # m.checksum
           THEN << <<DIFF_CHECKSUM, <<Stored(L, KeyOf(m)), m>>>> >>
           ELSE <<>>) \o ChecksumConflicts(L, Tail(batch))

\* C4 as amended: the second call leaves the registry and the indices as
\* they are and appends nothing but one DIFF_CHECKSUM [stored, m] for each
\* record m of the batch whose checksum differs from the stored record's.
C4_RemergeAppendsOnlyChecksumConflicts ==
  \A batch \in RevBatches :
    LET L1 == add_modules(Lib, batch)
        L2 == add_modules(L1, batch)
    IN L2 = [L1 EXCEPT !.logs = @ \o ChecksumConflicts(L1, batch)]

\* A batch was merged twice into the empty registry, and the second call
\* appended entries.
C4_Witness ==
  \E batch \in RevBatches :
    LET L1 == add_modules(Library_init, batch)
    IN /\ Lib = add_modules(L1, batch)
       /\ Len(logs) > Len(L1.logs)

(***************************************************************************)
(* C5: first-seen-wins.  Two records with different unknown names and the  *)
(* same unowned namespace, merged in that order: the first becomes the     *)
(* owner, and the second yields COLL_NAMESPACE [first, second] exactly     *)
(* when neither of the two is a submodule or named "...-ann".              *)
(***************************************************************************)
C5_FirstSeenWinsEitherExempt ==
  [][ \A m1, m2 \in Records :
        ( /\ m1.modulename # m2.modulename
          /\ m1.modulename \notin get_module_names(Lib)
          /\ m2.modulename \notin get_module_names(Lib)
          /\ m1.namespace = m2.namespace
          /\ ~DictHas(namespaces, m1.namespace)
          /\ IsCall(<<m1, m2>>) ) =>
          LET L1 == add_module(Lib, m1)
              emitted == \E i \in (Len(L1.logs) + 1)..Len(logs') :
                           logs'[i] = <<COLL_NAMESPACE, <<m1, m2>>>>
              exempt(m) == m.kind = "submodule" \/ IsAnn(m)
          IN /\ DictGet(L1.namespaces, m1.namespace) = m1
             /\ emitted <=> (~exempt(m1) /\ ~exempt(m2)) ]_vars

(***************************************************************************)
(* C6: merging a record m with a known name and an unseen effective        *)
(* revision inserts m under the new key and appends at most one entry:     *)
(* DIFF_NAMESPACE [lib_mod, m] when the namespaces differ and neither is   *)
(* "undefined", otherwise DIFF_PREFIX [lib_mod, m] when the prefixes       *)
(* differ, otherwise nothing; lib_mod is the first inserted revision.      *)
(***************************************************************************)
C6_NewRevisionOutcome ==
  \A m \in RevRecords :
    (m.modulename \in get_module_names(Lib) /\ KeyOf(m) \notin Keys(Lib)) =>
      LET revs == DictGet(mods, m.modulename)
          lib_mod == revs[1][2]
          expected ==
            IF /\ lib_mod.namespace # m.namespace
               /\ lib_mod.namespace # "undefined"
               /\ m.namespace # "undefined"
            THEN << <<DIFF_NAMESPACE, <<lib_mod, m>>>> >>
            ELSE IF lib_mod.prefix # m.prefix
            THEN << <<DIFF_PREFIX, <<lib_mod, m>>>> >>
            ELSE <<>>
      IN add_module(Lib, m) =
           [Lib EXCEPT
              !.mods = DictSet(@, m.modulename,
                               Append(revs, <<EffectiveRevision(m), m>>)),
              !.logs = @ \o expected]

\* A third revision was compared with the first inserted one, not the second.
C6_Witness ==
  /\ logs # <<>>
  /\ \E i \in 1..Len(mods) :
       LET revs == mods[i][2]
           e == logs[Len(logs)]
       IN /\ Len(revs) >= 3
          /\ e[1] \in {DIFF_NAMESPACE, DIFF_PREFIX}
          /\ e[2] = <<revs[1][2], revs[Len(revs)][2]>>
          /\ revs[2][2].namespace # revs[1][2].namespace

(***************************************************************************)
(* C7: when merging a record m with an unknown name yields COLL_NAMESPACE, *)
(* neither index changes, no NEW_MODULE entry is appended for m, and m     *)
(* stays in the name/revision map.                                         *)
(***************************************************************************)
YieldsNamespaceCollision(L2) ==
  \E i \in 1..Len(NewEntries(L2)) : NewEntries(L2)[i][1] = COLL_NAMESPACE

C7_NamespaceCollisionStopsIndexing ==
  \A m \in Records :
    LET L2 == add_module(Lib, m)
    IN (m.modulename \notin get_module_names(Lib) /\ YieldsNamespaceCollision(L2)) =>
         /\ L2.namespaces = namespaces
         /\ L2.prefixes = prefixes
         /\ \A i \in 1..Len(NewEntries(L2)) : NewEntries(L2)[i][1] # NEW_MODULE
         /\ KeyOf(m) \in Keys(L2)
         /\ Stored(L2, KeyOf(m)) = m

\* A record collided on its namespace: it is stored, the owner is the
\* other record, and its own, new prefix has no owner.
C7_Witness ==
  \E i \in 1..Len(logs) :
    /\ logs[i][1] = COLL_NAMESPACE
    /\ LET m == logs[i][2][2]
       IN /\ KeyOf(m) \in Keys(Lib)
          /\ Stored(Lib, KeyOf(m)) = m
          /\ DictGet(namespaces, m.namespace) = logs[i][2][1]
          /\ ~DictHas(prefixes, m.prefix)

(***************************************************************************)
(* C8: the prefix check uses the exemption rule of the namespace check:    *)
(* for a record m with an unknown name that passed the namespace check,    *)
(* COLL_PREFIX is emitted exactly when m.prefix has an owner, m is not a   *)
(* submodule and m is not named "...-ann"; a submodule never yields it.    *)
(***************************************************************************)
YieldsPrefixCollision(L2) ==
  \E i \in 1..Len(NewEntries(L2)) : NewEntries(L2)[i][1] = COLL_PREFIX

C8_PrefixCheckSameExemption ==
  [][ \A m \in Records :
        ( /\ m.modulename \notin get_module_names(Lib)
          /\ IsCall(<<m>>)
          /\ ~YieldsNamespaceCollision(Lib') ) =>
          /\ YieldsPrefixCollision(Lib') <=>
               (DictHas(prefixes, m.prefix) /\ m.kind # "submodule" /\ ~IsAnn(m))
          /\ m.kind = "submodule" => ~YieldsPrefixCollision(Lib') ]_vars

(***************************************************************************)
(* C9: as claimed, every record with an unknown name that is not stopped   *)
(* by COLL_NAMESPACE ends with a NEW_MODULE entry, COLL_PREFIX or not; a   *)
(* COLL_PREFIX entry precedes it and leaves the prefix index as it is.     *)
(* Stated for the records that are not submodules, for which the prefix    *)
(* check's exemption rule (C8) is not in question.                         *)
(***************************************************************************)
C9_NewModuleAlwaysAppended ==
  [][ \A m \in Records :
        ( /\ m.modulename \notin get_module_names(Lib)
          /\ m.kind # "submodule"
          /\ IsCall(<<m>>)
          /\ ~YieldsNamespaceCollision(Lib') ) =>
          /\ logs' # logs
          /\ logs'[Len(logs')] = <<NEW_MODULE, <<m>>>>
          /\ YieldsPrefixCollision(Lib') => prefixes' = prefixes ]_vars

\* C9 as amended: such a record appends exactly one entry: COLL_PREFIX
\* [owner, m], with no NEW_MODULE and m not registered as prefix owner, or
\* else NEW_MODULE [m], with m registered as prefix owner.
C9_NewModuleUnlessPrefixCollision ==
  \A m \in Records :
    LET L2 == add_module(Lib, m)
        new == NewEntries(L2)
    IN (m.modulename \notin get_module_names(Lib) /\ ~YieldsNamespaceCollision(L2)) =>
         /\ Len(new) = 1
         /\ \/ /\ new[1] = <<NEW_MODULE, <<m>>>>
               /\ L2.prefixes = DictSet(prefixes, m.prefix, m)
            \/ /\ new[1][1] = COLL_PREFIX
               /\ DictHas(prefixes, m.prefix)
               /\ new[1][2] = <<DictGet(prefixes, m.prefix), m>>
               /\ L2.prefixes = prefixes

\* A record passed the namespace check, collided on its prefix, and that
\* was the end of it: it owns its namespace, not its prefix.
C9_Witness ==
  /\ logs # <<>>
  /\ LET e == logs[Len(logs)]
     IN /\ e[1] = COLL_PREFIX
        /\ DictGet(namespaces, e[2][2].namespace) = e[2][2]
        /\ DictGet(prefixes, e[2][2].prefix) = e[2][1]
        /\ e[2][1] # e[2][2]

(***************************************************************************)
(* C10: add_modules never fails: every record accepted by Module._scan     *)
(* carries every field the merge reads, so no call ends in an exception.   *)
(***************************************************************************)
C10_MergeNeverRaises == raised # "KeyError"

(***************************************************************************)
(* C16: namespace divergence across revisions is always reported: when the *)
(* registry holds two revisions of one module name whose namespaces differ *)
(* and are both defined, the log has a DIFF_NAMESPACE entry involving that *)
(* module name, whatever the first merged revision is.                     *)
(***************************************************************************)
C16_NamespaceDivergenceReported ==
  \A i \in 1..Len(mods) :
    LET revs == mods[i][2]
    IN (\E j, k \in 1..Len(revs) :
          /\ revs[j][2].namespace # revs[k][2].namespace
          /\ revs[j][2].namespace # "undefined"
          /\ revs[k][2].namespace # "undefined") =>
         \E e \in 1..Len(logs) :
           /\ logs[e][1] = DIFF_NAMESPACE
           /\ \E n \in 1..Len(logs[e][2]) : logs[e][2][n].modulename = mods[i][1]

(***************************************************************************)
(* C18: merging a record whose module name is known (new revision or known *)
(* revision) leaves the namespace and prefix indices unchanged and appends *)
(* no COLL_NAMESPACE or COLL_PREFIX entry, also when its namespace or      *)
(* prefix is owned by another module name; so a merge that changes an      *)
(* index is the merge of a record with an unknown module name.             *)
(***************************************************************************)
C18_KnownNameLeavesIndices ==
  \A m \in MixRecords :
    LET L2 == add_module(Lib, m)
    IN /\ m.modulename \in get_module_names(Lib) =>
            /\ L2.namespaces = namespaces
            /\ L2.prefixes = prefixes
            /\ ~YieldsNamespaceCollision(L2)
            /\ ~YieldsPrefixCollision(L2)
       /\ (L2.namespaces # namespaces \/ L2.prefixes # prefixes) =>
            m.modulename \notin get_module_names(Lib)

\* A revision was added whose namespace is owned by another module name:
\* it was reported against its own first revision, and the owner is as before.
C18_Witness ==
  \E e \in 1..Len(logs) :
    /\ logs[e][1] = DIFF_NAMESPACE
    /\ LET m == logs[e][2][2]
       IN /\ KeyOf(m) \in Keys(Lib)
          /\ Stored(Lib, KeyOf(m)) = m
          /\ DictHas(namespaces, m.namespace)
          /\ DictGet(namespaces, m.namespace).modulename # m.modulename
          /\ DictHas(prefixes, m.prefix)
          /\ DictGet(prefixes, m.prefix).modulename # m.modulename

(***************************************************************************)
(* C19: the log is append-only and grows by at most one entry per merged   *)
(* record: a merge keeps the existing entries as a prefix of the log; each *)
(* record appends zero or one entry; a record with an unknown module name  *)
(* appends exactly one, NEW_MODULE, COLL_NAMESPACE or COLL_PREFIX; and the *)
(* number of entries with these codes is the number of module names.       *)
(***************************************************************************)
NameCodes == {NEW_MODULE, COLL_NAMESPACE, COLL_PREFIX}

C19_LogAppendOnly ==
  /\ Cardinality({e \in 1..Len(logs) : logs[e][1] \in NameCodes}) = Len(mods)
  /\ \A m \in MixRecords :
       LET L2 == add_module(Lib, m)
       IN /\ Len(L2.logs) \in {Len(logs), Len(logs) + 1}
          /\ SubSeq(L2.logs, 1, Len(logs)) = logs
          /\ m.modulename \notin get_module_names(Lib) =>
               /\ Len(L2.logs) = Len(logs) + 1
               /\ L2.logs[Len(L2.logs)][1] \in NameCodes
          /\ m.modulename \in get_module_names(Lib) =>
               \A e \in 1..Len(NewEntries(L2)) : NewEntries(L2)[e][1] \notin NameCodes
  /\ \A m1, m2 \in MixRecords :
       LET L2 == add_modules(Lib, <<m1, m2>>)
       IN /\ Len(L2.logs) <= Len(logs) + 2
          /\ SubSeq(L2.logs, 1, Len(logs)) = logs

\* Two module names were merged, the second one colliding with the first,
\* a further revision appended an entry of its own after theirs, and some
\* record appended none.
C19_Witness ==
  /\ Len(mods) = 2
  /\ Len(logs) = 3
  /\ logs[1][1] = NEW_MODULE
  /\ logs[2][1] \in {COLL_NAMESPACE, COLL_PREFIX}
  /\ logs[3][1] \in {DIFF_NAMESPACE, DIFF_PREFIX, DIFF_CHECKSUM}
  /\ NumRevs(Lib) = 3

(***************************************************************************)
(* C20: the set of (module name, effective revision) keys after merging a  *)
(* collection of records is independent of the merge order and of the      *)
(* split into batches: merging a record adds its key and no other, so two  *)
(* records merged in either order, in one batch or in two, give the same   *)
(* keys.                                                                   *)
(***************************************************************************)
C20_KeysOrderIndependent ==
  /\ \A m \in MixRecords : Keys(add_module(Lib, m)) = Keys(Lib) \cup {KeyOf(m)}
  /\ \A m1, m2 \in MixRecords :
       LET one == add_modules(Lib, <<m1, m2>>)
           swapped == add_modules(Lib, <<m2, m1>>)
           split == add_modules(add_modules(Lib, <<m1>>), <<m2>>)
       IN /\ Keys(one) = Keys(Lib) \cup {KeyOf(m1), KeyOf(m2)}
          /\ Keys(swapped) = Keys(one)
          /\ Keys(split) = Keys(one)

\* Two records were merged whose other order gives the same keys with
\* another stored record, other owners and another log.
C20_Witness ==
  \E m1, m2 \in MixRecords :
    LET swapped == add_modules(Library_init, <<m2, m1>>)
    IN /\ Lib = add_modules(Library_init, <<m1, m2>>)
       /\ Keys(swapped) = Keys(Lib)
       /\ Cardinality(Keys(Lib)) = 2
       /\ swapped.logs # logs
       /\ swapped.namespaces # namespaces

(***************************************************************************)
(* Vocabulary of the properties about runs.                                *)
(***************************************************************************)
\* The running process has returned from write_out_new_results, which it
\* called for a release that had no snapshot when the process started.
WriteReturned ==
  /\ pc \in {"print", "done"}
  /\ release_name # NoRelease
  /\ ~DictHas(startup, release_name)

FieldNames == {csv_fieldnames[i] : i \in 1..Len(csv_fieldnames)}

\* The two records have the same csv fields with the same values.
SameFields(m1, m2) ==
  \A f \in FieldNames :
    /\ Has(m1, f) <=> Has(m2, f)
    /\ (Has(m1, f) /\ Has(m2, f)) => m1[f] = m2[f]

(***************************************************************************)
(* C11: snapshot round-trip: when write_out_new_results has written the    *)
(* N > 0 records of a scan, load_release of the written file yields N      *)
(* records, each with the same eight csv fields as the original: no field  *)
(* is lost and no absent field has become a present value.                 *)
(***************************************************************************)
C11_SnapshotRoundTrip ==
  (WriteReturned /\ new_results # <<>>) =>
    /\ DictHas(snapshots, release_name)
    /\ LET original == DictValues(new_results)
           reloaded == revinfo_modules(DictGet(snapshots, release_name))
       IN /\ Len(reloaded) = Len(original)
          /\ \A i \in 1..Len(original) : SameFields(original[i], reloaded[i])

(***************************************************************************)
(* C12: snapshot writing is last-step and batch-atomic.  Wherever the      *)
(* running process is terminated: every snapshot file that existed when it *)
(* started is unchanged; a snapshot file that did not exist then holds the *)
(* header and a row for every record of the scanned batch; and no release  *)
(* that is_release_scanned reports has an empty or header-less snapshot.   *)
(***************************************************************************)
C12_SnapshotWriteAtomic ==
  /\ \A release \in DictKeys(startup) :
       /\ DictHas(snapshots, release)
       /\ DictGet(snapshots, release) = DictGet(startup, release)
  /\ \A release \in DictKeys(snapshots) \ DictKeys(startup) :
       DictGet(snapshots, release) =
         <<csv_fieldnames>> \o [i \in 1..Len(new_results) |-> get_row(new_results[i][2])]
  /\ \A release \in Releases :
       is_release_scanned(snapshots, release) =>
         /\ Len(DictGet(snapshots, release)) >= 2
         /\ DictGet(snapshots, release)[1] = csv_fieldnames

(***************************************************************************)
(* C13: snapshots are append-only across runs.  A snapshot file that       *)
(* existed when the process started keeps its contents; a call of          *)
(* write_out_new_results for a release that has a file returns with the    *)
(* directory as it was; and a run for a release that had a file scans      *)
(* nothing, holds no record but those read from the snapshots, and leaves  *)
(* the set of snapshot files as it was.                                    *)
(***************************************************************************)
SingleFileResults(release) ==
  {<<>>, new_results} \cup {scan_files(<<f>>, release, <<>>)[2] : f \in RunFiles}

C13_SnapshotsAppendOnly ==
  /\ \A release \in DictKeys(startup) :
       /\ DictHas(snapshots, release)
       /\ DictGet(snapshots, release) = DictGet(startup, release)
  /\ \A release \in DictKeys(snapshots) :
       \A results \in SingleFileResults(release) :
         write_out_new_results(snapshots, results, release) = snapshots
  /\ DictHas(startup, release_name) =>
       /\ new_results = <<>>
       /\ files_to_scan = <<>>
       /\ pc \in {"loaded", "print", "done"}
       /\ DictKeys(snapshots) = DictKeys(startup)
       /\ \A key \in Keys(Lib) :
            \E release \in DictKeys(startup) :
              LET stored == revinfo_modules(DictGet(startup, release))
              IN \E i \in 1..Len(stored) : stored[i] = Stored(Lib, key)

\* A run for a release whose snapshot holds records has ended.
C13_Witness ==
  /\ pc = "done"
  /\ DictHas(startup, release_name)
  /\ Len(DictGet(snapshots, release_name)) >= 2
  /\ mods # <<>>

(***************************************************************************)
(* C14: writing an empty scan result is a no-op: when                      *)
(* write_out_new_results has returned for a release with no records and no *)
(* snapshot, there is no snapshot file for the release, no exception was   *)
(* raised, and is_release_scanned is false for it.                         *)
(***************************************************************************)
C14_EmptyResultNotWritten ==
  /\ (WriteReturned /\ new_results = <<>>) =>
       /\ ~DictHas(snapshots, release_name)
       /\ ~is_release_scanned(snapshots, release_name)
       /\ raised = "none"
       /\ snapshots = startup
  /\ \A release \in Releases \ DictKeys(snapshots) :
       write_out_new_results(snapshots, <<>>, release) = snapshots

\* A scan whose only file was skipped has been written out.
C14_Witness ==
  /\ WriteReturned
  /\ pc = "done"
  /\ new_results = <<>>
  /\ files_to_scan # <<>>
  /\ ~DictHas(snapshots, release_name)

(***************************************************************************)
(* C15: print_log with a release name visits exactly the log entries in    *)
(* which a record has that release, and with no release name all entries,  *)
(* in append order; and the entries of the records of one scan follow the  *)
(* order in which add_modules was given the records.                       *)
(***************************************************************************)
C15_PrintLogFilter ==
  /\ \A release \in Releases \cup {NoRelease} :
       LET Involved(entry) ==
             \/ release = NoRelease
             \/ \E i \in 1..Len(entry[2]) : entry[2][i].release = release
       IN print_log(Lib, release) = SelectSeq(logs, Involved)
  /\ \A e1, e2 \in 1..Len(logs) :
       \A i, j \in 1..Len(new_results) :
         ( /\ e1 < e2
           /\ logs[e1][2][Len(logs[e1][2])] = new_results[i][2]
           /\ logs[e2][2][Len(logs[e2][2])] = new_results[j][2] ) => i < j

\* The log of a run for a release holds an entry of another release only,
\* which is skipped, and an entry between records of the two releases,
\* which is visited.
C15_Witness ==
  /\ pc = "print"
  /\ release_name \in Releases
  /\ LET visited == print_log(Lib, release_name)
     IN /\ visited # <<>>
        /\ Len(visited) < Len(logs)
        /\ \E e \in 1..Len(visited) :
             \E i \in 1..Len(visited[e][2]) : visited[e][2][i].release # release_name

(***************************************************************************)
(* C17: a release scan merges and persists one record per discovered file  *)
(* whose extraction succeeded, whatever the names of the files: the batch  *)
(* given to add_modules, and the rows of the written snapshot, are the     *)
(* records of the files of files_to_scan that were extracted, in order.    *)
(***************************************************************************)
C17_OneRecordPerFile ==
  ( /\ pc \in {"scanned", "writing", "print", "done"}
    /\ raised = "none"
    /\ release_name # NoRelease
    /\ ~DictHas(startup, release_name)
    /\ \A i, j \in 1..Len(files_to_scan) :
         files_to_scan[i] = files_to_scan[j] => i = j ) =>
    LET Extracted(file) == Module_scan(file, release_name)[1] = "ok"
        extracted == SelectSeq(files_to_scan, Extracted)
        records == [i \in 1..Len(extracted) |-> Module_scan(extracted[i], release_name)[2]]
    IN /\ DictValues(new_results) = records
       /\ (WriteReturned /\ records # <<>>) =>
            /\ DictHas(snapshots, release_name)
            /\ DictGet(snapshots, release_name) =
                 <<csv_fieldnames>> \o [i \in 1..Len(records) |-> get_row(records[i])]

====
